---- MODULE Spec2Model ----
(***************************************************************************)
(* Model of nvbench::state::exec (nvbench/detail/state_exec.cuh): the      *)
(* dispatch of a kernel launcher to the cold and hot measurements under a  *)
(* set of exec tags.  A tag set is a set of flag names; `a | b` is union   *)
(* and `a & b` is intersection.  A call of exec is a frame on `stack`;     *)
(* every statement of the function body is one action on the top frame.    *)
(***************************************************************************)
EXTENDS Naturals, Sequences, FiniteSets, TLC

\* ---- bounds -------------------------------------------------------------
\* Number of setter calls on the state object before exec is called.
MaxSetCalls == 3
\* Cap on the number of nested exec frames (never reached by the code).
MaxDepth == 5

\* ---- exec tags (nvbench/exec_tag.cuh) -----------------------------------
cold == "cold"
hot == "hot"
timer == "timer"
sync == "sync"
run_once == "run_once"
no_block == "no_block"

measure_mask == {cold, hot}
modifier_mask == {timer, no_block, sync, run_once}

\* Every union of recognised flags.
ExecTags == SUBSET (measure_mask \cup modifier_mask)

\* ---- expressions of state::exec -----------------------------------------
measure_tags(tags) == tags \cap measure_mask
modifier_tags(tags) == tags \cap modifier_mask

run_once_tags_dropping_no_block(tags) ==
  (modifier_tags(tags) \ {no_block}) \cup {cold, run_once}
run_once_tags_keeping_selectors(tags) == tags \cup {cold, run_once}
run_once_tags_without_modifiers(tags) == {cold, run_once}
run_once_tags_without_cold(tags) == modifier_tags(tags) \cup {run_once}
run_once_tags(tags) == modifier_tags(tags) \cup {cold, run_once}

no_block_tags_unchanged(tags) == tags
no_block_tags(tags) == tags \cup {no_block}

default_tags_cold_only(tags) == {cold} \cup tags
default_tags_always_both(tags) == {cold, hot} \cup tags
default_tags_ignoring_sync(tags) ==
  IF modifier_tags(tags) \cap {timer} # {}
    THEN {cold} \cup tags
    ELSE {cold, hot} \cup tags
default_tags(tags) ==
  IF modifier_tags(tags) \cap {timer, sync} # {}
    THEN {cold} \cup tags
    ELSE {cold, hot} \cup tags

use_blocking_kernel_inverted(tags) == no_block \in tags
use_blocking_kernel(tags) == no_block \notin tags

\* The launcher the cold measurement is built over.
cold_launcher_swapped(tags) == IF timer \in tags THEN "wrapper" ELSE "launcher"
cold_launcher(tags) == IF timer \in tags THEN "launcher" ELSE "wrapper"

\* The statement a frame continues with after its nested exec returned, and
\* after the skip check.
after_run_once_call_falls_through == "no_block_check"
after_run_once_call == "return"
after_no_block_call_falls_through == "selector_check"
after_no_block_call == "return"
after_default_call_falls_through == "skip_check"
after_default_call == "return"
after_skip_check_ignoring(skipped) == "cold_branch"
after_skip_check(skipped) == IF skipped THEN "return" ELSE "cold_branch"

\* The static assertions of the hot branch.
hot_static_assert_fails(tags) ==
  hot \in tags /\ (sync \in tags \/ timer \in tags)

\* The specialisations of exec that the body of exec<tags> instantiates: the
\* two calls under run-time conditions always, the defaulting call only when
\* its `if constexpr` is taken.
instantiated_calls(tags) ==
  {run_once_tags(tags), no_block_tags(tags)}
    \cup (IF measure_tags(tags) = {} THEN {default_tags(tags)} ELSE {})

RECURSIVE instantiations(_)
instantiations(S) ==
  LET N == S \cup UNION {instantiated_calls(t) : t \in S}
  IN  IF N = S THEN S ELSE instantiations(N)

\* exec<tags> does not compile.
rejected_at_compile_time(tags) ==
  \E t \in instantiations({tags}) : hot_static_assert_fails(t)

\* The nested exec calls that exec(tags) makes, outermost first, as the body of
\* exec reads them off the tags and the flags: the first of the three
\* conditions that holds makes the call and returns.
RECURSIVE exec_path(_, _, _, _)
exec_path(tags, ro, nb, fuel) ==
  IF fuel = 0 THEN <<>>
  ELSE IF run_once \notin modifier_tags(tags) /\ ro
    THEN <<run_once_tags(tags)>>
           \o exec_path(run_once_tags(tags), ro, nb, fuel - 1)
  ELSE IF no_block \notin modifier_tags(tags) /\ nb
    THEN <<no_block_tags(tags)>>
           \o exec_path(no_block_tags(tags), ro, nb, fuel - 1)
  ELSE IF measure_tags(tags) = {}
    THEN <<default_tags(tags)>>
           \o exec_path(default_tags(tags), ro, nb, fuel - 1)
  ELSE <<>>

\* ---- what a measurement does, as seen from exec -------------------------
Event(ev, strategy, over, tags) ==
  [ev |-> ev, strategy |-> strategy, over |-> over,
   use_blocking_kernel |-> use_blocking_kernel(tags), tags |-> tags]

cold_events(tags) ==
  IF cold \in tags
    THEN (IF cold_launcher(tags) = "wrapper"
            THEN <<Event("construct", "timer_wrapper", "launcher", tags)>>
            ELSE <<>>)
         \o <<Event("construct", "cold", cold_launcher(tags), tags),
              Event("invoke", "cold", cold_launcher(tags), tags)>>
    ELSE <<>>

hot_events(tags) ==
  IF hot \in tags
    THEN <<Event("construct", "hot", "launcher", tags),
           Event("invoke", "hot", "launcher", tags)>>
    ELSE <<>>

\* ---- state --------------------------------------------------------------
VARIABLES
  requested,                    \* the tags of the top-level exec call
  get_run_once,                 \* the three flags of the state object
  get_disable_blocking_kernel,
  is_skipped,
  setters,                      \* the setter calls made so far, in order
  phase,                        \* "setup", "exec", "done" or "rejected"
  stack,                        \* the frames of exec, innermost last
  chain,                        \* the nested exec calls made so far
  canon,                        \* the tag sets that reached the skip check
  events                        \* constructions and invocations so far

vars == <<requested, get_run_once, get_disable_blocking_kernel, is_skipped,
          setters, phase, stack, chain, canon, events>>

flags == <<get_run_once, get_disable_blocking_kernel, is_skipped>>
inputs == <<requested, get_run_once, get_disable_blocking_kernel, is_skipped,
            setters>>

Frame(tags) == [tags |-> tags, pc |-> "run_once_check", calls |-> 0]

Init ==
  /\ requested \in ExecTags
  /\ get_run_once = FALSE
  /\ get_disable_blocking_kernel = FALSE
  /\ is_skipped = FALSE
  /\ setters = <<>>
  /\ phase = "setup"
  /\ stack = <<>>
  /\ chain = <<>>
  /\ canon = {}
  /\ events = <<>>

\* ---- the state object, before exec --------------------------------------
set_run_once ==
  /\ phase = "setup"
  /\ Len(setters) < MaxSetCalls
  /\ \E v \in BOOLEAN : get_run_once' = v
  /\ setters' = Append(setters, "set_run_once")
  /\ UNCHANGED <<requested, get_disable_blocking_kernel, is_skipped, phase,
                 stack, chain, canon, events>>

set_disable_blocking_kernel ==
  /\ phase = "setup"
  /\ Len(setters) < MaxSetCalls
  /\ \E v \in BOOLEAN : get_disable_blocking_kernel' = v
  /\ setters' = Append(setters, "set_disable_blocking_kernel")
  /\ UNCHANGED <<requested, get_run_once, is_skipped, phase,
                 stack, chain, canon, events>>

skip ==
  /\ phase = "setup"
  /\ Len(setters) < MaxSetCalls
  /\ is_skipped' = TRUE
  /\ setters' = Append(setters, "skip")
  /\ UNCHANGED <<requested, get_run_once, get_disable_blocking_kernel, phase,
                 stack, chain, canon, events>>

\* ---- state::exec --------------------------------------------------------
top == stack[Len(stack)]

SetTop(f) == [stack EXCEPT ![Len(stack)] = f]

\* The top frame calls exec(to) and will continue at `next`.
Call(step, to, next) ==
  /\ Len(stack) < MaxDepth
  /\ stack' = Append(SetTop([top EXCEPT !.pc = next, !.calls = @ + 1]),
                     Frame(to))
  /\ chain' = Append(chain, [step |-> step, from |-> top.tags, to |-> to,
                             depth |-> Len(stack)])

Goto(next) ==
  /\ stack' = SetTop([top EXCEPT !.pc = next])
  /\ chain' = chain

\* The top-level call.  A tag set whose specialisation does not compile never
\* runs: the call is rejected whatever the flags are.
exec ==
  /\ phase = "setup"
  /\ IF rejected_at_compile_time(requested)
       THEN /\ phase' = "rejected"
            /\ stack' = stack
       ELSE /\ phase' = "exec"
            /\ stack' = <<Frame(requested)>>
  /\ UNCHANGED <<inputs, chain, canon, events>>

run_once_normalization ==
  /\ phase = "exec"
  /\ top.pc = "run_once_check"
  /\ IF run_once \notin modifier_tags(top.tags) /\ get_run_once
       THEN Call("run_once", run_once_tags(top.tags), after_run_once_call)
       ELSE Goto("no_block_check")
  /\ UNCHANGED <<inputs, phase, canon, events>>

no_block_normalization ==
  /\ phase = "exec"
  /\ top.pc = "no_block_check"
  /\ IF no_block \notin modifier_tags(top.tags) /\ get_disable_blocking_kernel
       THEN Call("no_block", no_block_tags(top.tags), after_no_block_call)
       ELSE Goto("selector_check")
  /\ UNCHANGED <<inputs, phase, canon, events>>

selector_defaulting ==
  /\ phase = "exec"
  /\ top.pc = "selector_check"
  /\ IF measure_tags(top.tags) = {}
       THEN Call("default", default_tags(top.tags), after_default_call)
       ELSE Goto("skip_check")
  /\ UNCHANGED <<inputs, phase, canon, events>>

skip_check ==
  /\ phase = "exec"
  /\ top.pc = "skip_check"
  /\ canon' = canon \cup {top.tags}
  /\ Goto(after_skip_check(is_skipped))
  /\ UNCHANGED <<inputs, phase, events>>

cold_branch ==
  /\ phase = "exec"
  /\ top.pc = "cold_branch"
  /\ events' = events \o cold_events(top.tags)
  /\ Goto("hot_branch")
  /\ UNCHANGED <<inputs, phase, canon>>

hot_branch ==
  /\ phase = "exec"
  /\ top.pc = "hot_branch"
  /\ events' = events \o hot_events(top.tags)
  /\ Goto("return")
  /\ UNCHANGED <<inputs, phase, canon>>

return ==
  /\ phase = "exec"
  /\ top.pc = "return"
  /\ stack' = SubSeq(stack, 1, Len(stack) - 1)
  /\ phase' = IF Len(stack) = 1 THEN "done" ELSE "exec"
  /\ UNCHANGED <<inputs, chain, canon, events>>

Next ==
  \/ set_run_once
  \/ set_disable_blocking_kernel
  \/ skip
  \/ exec
  \/ run_once_normalization
  \/ no_block_normalization
  \/ selector_defaulting
  \/ skip_check
  \/ cold_branch
  \/ hot_branch
  \/ return

Spec == Init /\ [][Next]_vars

\* exec runs on one thread and each statement completes: once called, it keeps
\* taking steps.
ExecStep ==
  \/ run_once_normalization
  \/ no_block_normalization
  \/ selector_defaulting
  \/ skip_check
  \/ cold_branch
  \/ hot_branch
  \/ return

FairSpec == Spec /\ WF_vars(ExecStep)

\* ---- observations used by the properties --------------------------------
Invocations(strategy) ==
  {i \in 1..Len(events) :
     events[i].ev = "invoke" /\ events[i].strategy = strategy}

Constructions(strategy) ==
  {i \in 1..Len(events) :
     events[i].ev = "construct" /\ events[i].strategy = strategy}

Started == phase \in {"exec", "done"}

HotWithManualTiming(tags) ==
  hot \in tags /\ (timer \in tags \/ sync \in tags)

\* The two normalizations as functions of a tag set, each applied when its
\* flag is set and its modifier is missing.
RunOnceNormalized(tags) ==
  IF run_once \notin modifier_tags(tags) THEN run_once_tags(tags) ELSE tags

NoBlockNormalized(tags) ==
  IF no_block \notin modifier_tags(tags) THEN no_block_tags(tags) ELSE tags

\* ---- C1 -----------------------------------------------------------------
\* C1: whenever the state reports run-once requested, a top-level exec never
\* invokes the hot measurement, whatever tag set was requested.
C1_RunOncePrecedence ==
  (Started /\ get_run_once) => Invocations("hot") = {}

\* ---- C2 -----------------------------------------------------------------
\* C2: on a skipped state exec constructs and invokes nothing (no strategy,
\* no timer wrapper); on a state that is not skipped a completed exec has
\* invoked at least one strategy.
C2_SkipShortCircuit ==
  /\ (Started /\ is_skipped) => events = <<>>
  /\ (phase = "done" /\ ~is_skipped) =>
       Invocations("cold") \cup Invocations("hot") # {}

C2_Witness ==
  /\ phase = "done"
  /\ is_skipped
  /\ canon = {{cold, hot}}
  /\ events = <<>>

\* ---- C3 -----------------------------------------------------------------
\* C3: a request with no selector and with timer or sync among its modifiers
\* never invokes hot, never invokes cold more than once, and has invoked cold
\* exactly once when exec completes on a state that is not skipped.
C3_ManualTimingDefaultsToCold ==
  (/\ Started
   /\ measure_tags(requested) = {}
   /\ modifier_tags(requested) \cap {timer, sync} # {})
  => /\ Invocations("hot") = {}
     /\ Constructions("hot") = {}
     /\ Cardinality(Invocations("cold")) <= 1
     /\ (phase = "done" /\ ~is_skipped) =>
          Cardinality(Invocations("cold")) = 1

C3_Witness ==
  /\ phase = "done"
  /\ requested = {timer}
  /\ get_disable_blocking_kernel
  /\ ~get_run_once
  /\ ~is_skipped
  /\ Cardinality(Invocations("cold")) = 1

\* ---- C4 -----------------------------------------------------------------
\* C4 as stated: a request with no selector and no modifier, on a state that
\* is not skipped, invokes both cold and hot whatever the run-once and
\* blocking-kernel flags are.
C4_DefaultSelectsBoth ==
  (phase = "done" /\ requested = {} /\ ~is_skipped)
  => (Invocations("cold") # {} /\ Invocations("hot") # {})

\* C4 amended: such a request invokes cold once, and invokes hot (once)
\* exactly when the state does not report run-once; the blocking-kernel flag
\* makes no difference.
C4_DefaultSelectsBothUnlessRunOnce ==
  (phase = "done" /\ requested = {} /\ ~is_skipped)
  => /\ Cardinality(Invocations("cold")) = 1
     /\ Cardinality(Invocations("hot")) = (IF get_run_once THEN 0 ELSE 1)

C4_Witness ==
  /\ phase = "done"
  /\ requested = {}
  /\ ~is_skipped
  /\ ~get_run_once
  /\ get_disable_blocking_kernel
  /\ Invocations("cold") # {}
  /\ Invocations("hot") # {}

\* ---- C5 -----------------------------------------------------------------
\* C5: a call of exec is rejected exactly when its tag set has hot together
\* with timer or sync, whatever the flags of the state are, and a rejected
\* call measures nothing.
C5_IncompatibleCombinationRejected ==
  /\ phase # "setup" =>
       (phase = "rejected" <=> HotWithManualTiming(requested))
  /\ phase = "rejected" => (events = <<>> /\ stack = <<>> /\ canon = {})

C5_Witness ==
  /\ phase = "rejected"
  /\ requested = {hot, timer}
  /\ get_run_once

\* ---- C6 -----------------------------------------------------------------
\* C6: every nested exec call passes a tag set with at least one bit the
\* calling frame's tag set lacks, the nesting never reaches its cap, and an
\* exec that started completes.
C6_StrictGrowth ==
  /\ \A i \in 1..Len(chain) : chain[i].to \ chain[i].from # {}
  /\ \A i \in 1..Len(stack) - 1 : stack[i + 1].tags \ stack[i].tags # {}
  /\ Len(stack) < MaxDepth

C6_Termination ==
  /\ []C6_StrictGrowth
  /\ (phase = "exec") ~> (phase = "done")

C6_Witness ==
  /\ phase = "done"
  /\ Len(chain) = 2
  /\ chain[1].step = "run_once"
  /\ hot \in chain[1].from
  /\ chain[2].step = "no_block"

\* ---- C7 -----------------------------------------------------------------
\* C7: every tag set a measurement is constructed with that has run_once has
\* exactly {cold} as its selector component.
C7_RunOnceImpliesColdOnly ==
  \A i \in 1..Len(events) :
    (events[i].ev = "construct" /\ run_once \in events[i].tags)
      => measure_tags(events[i].tags) = {cold}

\* ---- C8 -----------------------------------------------------------------
\* C8: a cold measurement is built over the timer wrapper, constructed just
\* before it and once, when its tag set lacks timer, and over the caller's
\* launcher with no wrapper constructed when its tag set has timer; a hot
\* measurement is always built over the caller's launcher.
C8_WrapperSelection ==
  /\ \A i \in Constructions("cold") :
       IF timer \in events[i].tags
         THEN /\ events[i].over = "launcher"
              /\ Constructions("timer_wrapper") = {}
         ELSE /\ events[i].over = "wrapper"
              /\ Constructions("timer_wrapper") = {i - 1}
              /\ events[i - 1].over = "launcher"
  /\ \A i \in Constructions("hot") : events[i].over = "launcher"
  /\ Constructions("timer_wrapper") # {} => Constructions("cold") # {}
  /\ \A i \in Invocations("cold") :
       i - 1 \in Constructions("cold") /\ events[i].over = events[i - 1].over

C8_Witness ==
  /\ phase = "done"
  /\ requested = {cold, hot}
  /\ Cardinality(Constructions("timer_wrapper")) = 1
  /\ Constructions("hot") # {}

\* ---- C9 -----------------------------------------------------------------
\* C9: with both run-once requested and the blocking kernel disabled, the tag
\* set that reaches measurement is the requested one normalized for run-once
\* and then for no-block, which is the same as normalized for no-block and
\* then for run-once (with the missing selector filled in), in whatever order
\* the flags were set; every measurement is made under that tag set.
C9_NormalizationCommutes ==
  (phase = "done" /\ get_run_once /\ get_disable_blocking_kernel)
  => LET a == NoBlockNormalized(RunOnceNormalized(requested))
         b == RunOnceNormalized(NoBlockNormalized(requested))
     IN  /\ a = b
         /\ canon = {IF measure_tags(a) = {} THEN default_tags(a) ELSE a}
         /\ canon = {IF measure_tags(b) = {} THEN default_tags(b) ELSE b}
         /\ \A i \in 1..Len(events) : events[i].tags \in canon

C9_Witness ==
  /\ phase = "done"
  /\ setters = <<"set_disable_blocking_kernel", "set_run_once">>
  /\ get_run_once
  /\ get_disable_blocking_kernel
  /\ requested = {hot}
  /\ canon = {{cold, run_once, no_block}}
  /\ Invocations("cold") # {}

\* ---- C10 ----------------------------------------------------------------
\* C10: the nested calls made and the measurements performed are a function
\* of the requested tag set and the three flags alone (so two runs on the same
\* tag set and state agree on the sequence of tag sets, the strategies and
\* their order, the wrapper and use_blocking_kernel), and no frame makes more
\* than one nested call.
IsPrefix(s, t) == Len(s) <= Len(t) /\ s = SubSeq(t, 1, Len(s))

ChainTags == [i \in 1..Len(chain) |-> chain[i].to]

ResolvedTags ==
  LET path == exec_path(requested, get_run_once, get_disable_blocking_kernel,
                        MaxDepth)
  IN  IF path = <<>> THEN requested ELSE path[Len(path)]

ResolvedEvents ==
  IF is_skipped THEN <<>>
  ELSE cold_events(ResolvedTags) \o hot_events(ResolvedTags)

C10_Determinism ==
  Started =>
    /\ \A i \in 1..Len(stack) : stack[i].calls <= 1
    /\ \A i, j \in 1..Len(chain) : chain[i].depth = chain[j].depth => i = j
    /\ IsPrefix(ChainTags,
                exec_path(requested, get_run_once,
                          get_disable_blocking_kernel, MaxDepth))
    /\ IsPrefix(events, ResolvedEvents)
    /\ phase = "done" =>
         /\ ChainTags = exec_path(requested, get_run_once,
                                  get_disable_blocking_kernel, MaxDepth)
         /\ events = ResolvedEvents
         /\ canon = {ResolvedTags}

C10_Witness ==
  /\ phase = "done"
  /\ requested = {sync}
  /\ get_disable_blocking_kernel
  /\ ~get_run_once
  /\ ~is_skipped
  /\ ChainTags = <<{sync, no_block}, {cold, sync, no_block}>>
  /\ Len(events) = 3

\* ---- C11 ----------------------------------------------------------------
\* C11: one exec makes a linear chain of nested calls and then at most one
\* cold and at most one hot measurement; the cold measurement is invoked
\* before the hot one is constructed; a frame that made a nested call only
\* returns, so only the innermost frame reaches the skip check and measures.
C11_InvocationShape ==
  /\ Cardinality(Invocations("cold")) <= 1
  /\ Cardinality(Invocations("hot")) <= 1
  /\ \A i \in Invocations("cold") : \A j \in Constructions("hot") : i < j
  /\ \A i \in 1..Len(chain) : chain[i].depth = i
  /\ \A i \in 1..Len(stack) :
       (stack[i].calls > 0 \/ i < Len(stack)) => stack[i].pc = "return"
  /\ \A i \in 1..Len(events) : \A j \in 1..Len(chain) :
       events[i].tags # chain[j].from
  /\ Cardinality(canon) <= 1

C11_Witness ==
  /\ phase = "done"
  /\ requested = {}
  /\ Len(chain) = 1
  /\ Len(events) = 5
  /\ events[3].ev = "invoke" /\ events[3].strategy = "cold"
  /\ events[4].ev = "construct" /\ events[4].strategy = "hot"

\* ---- C12 ----------------------------------------------------------------
\* C12: when the state reports run-once and the request lacks run_once, the
\* tag set that measures is the requested modifiers plus cold and run_once
\* (plus no_block if the blocking kernel is disabled), whatever selectors
\* were requested, and a completed exec on a state that is not skipped has
\* invoked cold exactly once and hot never.
C12_RunOnceDiscardsSelectors ==
  (phase = "done" /\ get_run_once /\ run_once \notin requested)
  => /\ canon = {modifier_tags(requested) \cup {cold, run_once}
                   \cup (IF get_disable_blocking_kernel
                           THEN {no_block} ELSE {})}
     /\ Invocations("hot") = {}
     /\ Constructions("hot") = {}
     /\ ~is_skipped => Cardinality(Invocations("cold")) = 1

C12_Witness ==
  /\ phase = "done"
  /\ requested = {cold, hot, no_block}
  /\ get_run_once
  /\ ~get_disable_blocking_kernel
  /\ ~is_skipped
  /\ canon = {{cold, run_once, no_block}}
  /\ Cardinality(Invocations("cold")) = 1

\* ---- C13 ----------------------------------------------------------------
\* C13: the modifiers of every tag set that reaches the skip check or a
\* measurement are the requested modifiers, plus run_once when the state
\* reports run-once, plus no_block when the state reports the blocking kernel
\* disabled; no nested call adds timer or sync or drops a modifier, and
\* selector defaulting leaves the modifiers as they are.
C13_ModifiersNeverInvented ==
  LET expected == modifier_tags(requested)
                    \cup (IF get_run_once THEN {run_once} ELSE {})
                    \cup (IF get_disable_blocking_kernel
                            THEN {no_block} ELSE {})
  IN  /\ \A t \in canon : modifier_tags(t) = expected
      /\ \A i \in 1..Len(events) : modifier_tags(events[i].tags) = expected
      /\ \A i \in 1..Len(chain) :
           /\ modifier_tags(chain[i].from) \subseteq modifier_tags(chain[i].to)
           /\ modifier_tags(chain[i].to) \ modifier_tags(chain[i].from)
                \subseteq {run_once, no_block}
           /\ chain[i].step = "default" =>
                modifier_tags(chain[i].to) = modifier_tags(chain[i].from)

C13_Witness ==
  /\ phase = "done"
  /\ requested = {timer}
  /\ get_run_once
  /\ get_disable_blocking_kernel
  /\ ~is_skipped
  /\ Len(chain) = 2
  /\ Constructions("cold") # {}

\* ---- C14 ----------------------------------------------------------------
\* C14: every tag set that reaches the skip check has a selector, has run_once
\* if the state reports run-once and no_block if the state reports the
\* blocking kernel disabled, and exec on that tag set against the same state
\* makes no nested call.
C14_CanonicalBeforeMeasurement ==
  \A t \in canon :
    /\ measure_tags(t) # {}
    /\ get_run_once => run_once \in t
    /\ get_disable_blocking_kernel => no_block \in t
    /\ exec_path(t, get_run_once, get_disable_blocking_kernel, MaxDepth)
         = <<>>

C14_Witness ==
  /\ phase = "done"
  /\ requested = {}
  /\ get_disable_blocking_kernel
  /\ ~get_run_once
  /\ canon = {{cold, hot, no_block}}

\* ---- C15 ----------------------------------------------------------------
\* C15: every measurement is constructed with use_blocking_kernel true exactly
\* when the request lacks no_block and the state does not report the blocking
\* kernel disabled.
C15_BlockingKernelChoice ==
  \A i \in Constructions("cold") \cup Constructions("hot") :
    events[i].use_blocking_kernel
      <=> (no_block \notin requested /\ ~get_disable_blocking_kernel)

C15_Witness ==
  /\ phase = "done"
  /\ requested = {hot}
  /\ get_run_once
  /\ get_disable_blocking_kernel
  /\ Constructions("cold") # {}
  /\ \A i \in Constructions("cold") : ~events[i].use_blocking_kernel

\* ---- C16 ----------------------------------------------------------------
\* C16: for a request that does not itself combine hot with timer or sync, no
\* specialisation of exec instantiated from it, taken at run time or not, and
\* no nested call made, combines hot with timer or sync; the request is not
\* rejected and no measurement is constructed under such a combination.
C16_HotCompatibilityPreserved ==
  ~HotWithManualTiming(requested)
  => /\ \A t \in instantiations({requested}) : ~HotWithManualTiming(t)
     /\ \A i \in 1..Len(chain) : ~HotWithManualTiming(chain[i].to)
     /\ \A i \in 1..Len(events) : ~HotWithManualTiming(events[i].tags)
     /\ phase # "rejected"

C16_Witness ==
  /\ phase = "done"
  /\ requested = {sync}
  /\ ~get_run_once
  /\ ~is_skipped
  /\ {cold, sync, run_once} \in instantiations({requested})
  /\ Len(chain) = 1
  /\ Constructions("cold") # {}

\* ---- C17 ----------------------------------------------------------------
\* C17: a top-level exec makes at most two nested calls, each of the three
\* normalization steps makes at most one of them, and selector defaulting
\* never follows run-once normalization.
C17_BoundedRedispatch ==
  /\ Len(chain) <= 2
  /\ Len(stack) <= 3
  /\ \A i, j \in 1..Len(chain) : chain[i].step = chain[j].step => i = j
  /\ \A i, j \in 1..Len(chain) :
       (chain[i].step = "run_once" /\ chain[j].step = "default") => j < i

C17_Witness ==
  /\ phase = "done"
  /\ requested = {}
  /\ Len(chain) = 2
  /\ chain[1].step = "no_block"
  /\ chain[2].step = "default"

====
